---- MODULE Spec2Model ----
(***************************************************************************)
(* A model of ledb's Collection (src/ledb/src/collection.rs): the primary  *)
(* map of documents, the list of secondary indexes, the write transactions *)
(* that the mutations open on the LMDB storage, and the shared handle with *)
(* its deferred physical delete.                                           *)
(*                                                                         *)
(* Storage follows lmdb-zero: a WriteTransaction works on a private copy   *)
(* of the storage; `txn.commit()` publishes the copy, and a transaction    *)
(* that is dropped without commit (an early `?` return, or a function that *)
(* simply ends) is aborted and publishes nothing.                          *)
(***************************************************************************)
EXTENDS Integers, Sequences, FiniteSets, TLC

\* ------------------------------------------------------------------ bounds
MaxId == 2          \* Primary identifiers are 1..MaxId
MaxKey == 1         \* a field holds a value 1..MaxKey, or 0 when it is absent
MaxLoad == 2        \* documents given to one load call
MaxHandles == 2     \* handles of the collection alive at once
MaxFields == 2      \* key fields given to one set_indexes call

Ids == 1..MaxId
Paths == {"a", "b"}
Kinds == {"Unique", "NonUnique"}
KeyTypes == {"Int", "String"}
Vals == 0..MaxKey
Keys == 1..MaxKey

\* The value of a document: one (integer or absent) value per field path.
DocVals == [a : Vals, b : Vals]
\* `None`: no document (Option::None of get / old_doc / new_doc).
NoDoc == [a |-> -1, b |-> -1]
\* RawDocument: the value and the optional Primary (0: no Primary).
RawDocs == [id : 0..MaxId, val : DocVals]

VARIABLES
    primary,    \* committed primary map: id -> document value, or NoDoc
    indexes,    \* handle.indexes: the list of Index, each with its committed entries
    delete,     \* handle.delete: the remove marker
    users,      \* clones of the handle held by callers
    iters,      \* clones of the handle held by live DocumentsIterators
    failing,    \* clones inside drop whose Arc::try_unwrap failed, Arc not yet released
    dbDeleted,  \* how many times db.delete() ran on the physical database
    issued,     \* history: the greatest id an insert has returned so far
    ret,        \* history: the last call made, its argument and what it returned
    docIters,   \* the live DocumentsIterators: the ids each has still to yield
    th,         \* per thread: the call it is in, where it is, its locals, and
                \* (history) fresh: the captured ids that were inserted anew since
    wtxn,       \* the open WriteTransaction: its owner and its private storage
    ixlock      \* handle.indexes (RwLock): the holder of the write lock

vars == <<primary, indexes, delete, users, iters, failing, dbDeleted, issued, ret,
          docIters, th, wtxn, ixlock>>

\* ---------------------------------------------------------------- storage
EmptyDb == [i \in Ids |-> NoDoc]

Present(db) == {i \in Ids : db[i] # NoDoc}

\* access.get(&handle.db, id).to_opt()
Get(db, id) == db[id]

\* access.put(&handle.db, id, bytes, PutFlags::empty())
DbPut(db, id, val) == [db EXCEPT ![id] = val]

\* access.del_key(&handle.db, id)
DbDel(db, id) == [db EXCEPT ![id] = NoDoc]

SetMax(S) == CHOOSE x \in S : \A y \in S : y <= x

\* Collection::last_id: the key of the last entry of the primary map, 0 when empty
last_id(db) == IF Present(db) = {} THEN 0 ELSE SetMax(Present(db))

\* Collection::new_id
new_id(db) == last_id(db) + 1

\* ------------------------------------------------------------------ Index
\* Index::new: an index over a fresh, empty database (a fresh serial names it)
NewIndex(path, kind, key) ==
    [path |-> path, kind |-> kind, key |-> key, entries |-> {}]

\* The keys an index extracts from a document: the value at its path, when
\* the document has one of the index's key type (the model's values are integers).
Extract(ix, doc) ==
    IF doc = NoDoc \/ ix.key # "Int" \/ doc[ix.path] = 0 THEN {} ELSE {doc[ix.path]}

\* Index::update_index(access, old_doc, new_doc) for the document `id`:
\* removes the entries of the keys only the old document has, adds those of
\* the keys only the new one has; a Unique index refuses a key that is taken.
UpdateIndex(ix, id, old, new) ==
    LET oldK == Extract(ix, old) \ Extract(ix, new)
        newK == Extract(ix, new) \ Extract(ix, old)
        kept == ix.entries \ {<<k, id>> : k \in oldK}
        clash == ix.kind = "Unique" /\ \E k \in newK : \E e \in kept : e[1] = k
    IN  [ok |-> ~clash,
         ix |-> [ix EXCEPT !.entries =
                    IF clash THEN kept ELSE kept \cup {<<k, id>> : k \in newK}]]

\* Index::purge(access): clears the index's database
PurgeIndex(ix) == [ix EXCEPT !.entries = {}]

\* ------------------------------------------------------------ transactions
\* The storage a call works on: st = [db |-> primary map, ixs |-> index list].
\* WriteTransaction::new: the transaction starts from the committed storage.
Begin(st) == st

\* txn.commit(): the transaction's storage becomes the committed one.
Commit(st, txn) == txn

\* A WriteTransaction dropped without commit is aborted: the committed
\* storage stays as it was when the call began.
Dropped(st, txn) == st

\* Collection::update_indexes: every index of the list, in list order,
\* stopping at the first failure (`?`); the indexes before it stay updated
\* inside the transaction.
RECURSIVE UpdateFrom(_, _, _, _, _)
UpdateFrom(ixs, n, id, old, new) ==
    IF n > Len(ixs) THEN [ok |-> TRUE, ixs |-> ixs]
    ELSE LET r == UpdateIndex(ixs[n], id, old, new)
         IN  IF r.ok
             THEN UpdateFrom([ixs EXCEPT ![n] = r.ix], n + 1, id, old, new)
             ELSE [ok |-> FALSE, ixs |-> [ixs EXCEPT ![n] = r.ix]]

\* Mutant of update_indexes: only the first index of the list is updated.
update_indexes_first_only(txn, id, old, new) ==
    IF Len(txn.ixs) = 0 THEN [ok |-> TRUE, txn |-> txn]
    ELSE LET r == UpdateFrom(<<txn.ixs[1]>>, 1, id, old, new)
         IN  [ok |-> r.ok, txn |-> [txn EXCEPT !.ixs = r.ixs \o Tail(txn.ixs)]]

update_indexes(txn, id, old, new) ==
    LET r == UpdateFrom(txn.ixs, 1, id, old, new)
    IN  [ok |-> r.ok, txn |-> [txn EXCEPT !.ixs = r.ixs]]

\* What a call returns and leaves behind: ok/err/val are the Result, st the
\* committed storage after the call.
Ok(val, st) == [ok |-> TRUE, err |-> "", val |-> val, st |-> st]
Err(err, st) == [ok |-> FALSE, err |-> err, val |-> 0, st |-> st]

\* ------------------------------------------------------------- mutations
\* Mutant of put_raw: the indexes are updated as for a new document.
put_raw_as_new(st, doc) ==
    IF doc.id = 0 THEN Err("MissingIdentifier", st)
    ELSE LET txn == Begin(st)
             t1 == [txn EXCEPT !.db = DbPut(txn.db, doc.id, doc.val)]
             r == update_indexes(t1, doc.id, NoDoc, doc.val)
         IN  IF r.ok THEN Ok(0, Commit(st, r.txn))
             ELSE Err("IndexError", Dropped(st, r.txn))

\* Collection::put_raw
put_raw(st, doc) ==
    IF doc.id = 0 THEN Err("MissingIdentifier", st)
    ELSE LET txn == Begin(st)
             old == Get(txn.db, doc.id)
             t1 == [txn EXCEPT !.db = DbPut(txn.db, doc.id, doc.val)]
             r == update_indexes(t1, doc.id, old, doc.val)
         IN  IF r.ok THEN Ok(0, Commit(st, r.txn))
             ELSE Err("IndexError", Dropped(st, r.txn))

\* Collection::put
put(st, doc) == put_raw(st, doc)

\* Collection::has
has(st, id) == Get(st.db, id) # NoDoc

\* Option::None of Collection::get
None == [id |-> 0, val |-> NoDoc]

\* Collection::get: the stored value, decoded, with_id(id)
get(st, id) ==
    IF Get(st.db, id) = NoDoc THEN None ELSE [id |-> id, val |-> Get(st.db, id)]

\* Collection::insert: returns the new id
insert(st, val) ==
    LET id == new_id(st.db)
        r == put_raw(st, [id |-> id, val |-> val])
    IN  IF r.ok THEN Ok(id, r.st) ELSE r

\* Collection::delete: val 1 is true, val 0 is false
delete_doc(st, id) ==
    LET txn == Begin(st)
        old == Get(txn.db, id)
    IN  IF old = NoDoc THEN Ok(0, Dropped(st, txn))
        ELSE LET t1 == [txn EXCEPT !.db = DbDel(txn.db, id)]
                 r == update_indexes(t1, id, old, NoDoc)
             IN  IF r.ok THEN Ok(1, Commit(st, r.txn))
                 ELSE Err("IndexError", Dropped(st, r.txn))

\* Collection::purge: every index and the primary map are cleared inside the
\* write transaction; the function returns clear_db's result and the
\* transaction goes out of scope without txn.commit().
purge(st) ==
    LET txn == Begin(st)
        t1 == [txn EXCEPT !.ixs = [n \in DOMAIN txn.ixs |-> PurgeIndex(txn.ixs[n])]]
        t2 == [t1 EXCEPT !.db = EmptyDb]
    IN  Ok(0, Dropped(st, t2))

\* The loop of Collection::load over docs[n..]: req_id, put, update_indexes
RECURSIVE LoadFrom(_, _, _)
LoadFrom(txn, docs, n) ==
    IF n > Len(docs) THEN [ok |-> TRUE, err |-> "", txn |-> txn]
    ELSE LET doc == docs[n]
         IN  IF doc.id = 0 THEN [ok |-> FALSE, err |-> "MissingIdentifier", txn |-> txn]
             ELSE LET t1 == [txn EXCEPT !.db = DbPut(txn.db, doc.id, doc.val)]
                      r == update_indexes(t1, doc.id, NoDoc, doc.val)
                  IN  IF r.ok THEN LoadFrom(r.txn, docs, n + 1)
                      ELSE [ok |-> FALSE, err |-> "IndexError", txn |-> r.txn]

\* Mutant of load: what was written before the failure is committed.
load_commits_partial(st, docs) ==
    LET p == purge(st)
    IN  IF ~p.ok THEN p
        ELSE LET r == LoadFrom(Begin(p.st), docs, 1)
             IN  IF r.ok THEN Ok(Len(docs), Commit(p.st, r.txn))
                 ELSE Err(r.err, Commit(p.st, r.txn))

\* Collection::load: purge()?, then one write transaction for all documents
load(st, docs) ==
    LET p == purge(st)
    IN  IF ~p.ok THEN p
        ELSE LET r == LoadFrom(Begin(p.st), docs, 1)
             IN  IF r.ok THEN Ok(Len(docs), Commit(p.st, r.txn))
                 ELSE Err(r.err, Dropped(p.st, r.txn))

\* --------------------------------------------------------------- queries
\* Filter: None, or a comparison of the field `path` with the key `v`,
\* possibly negated.
NoFilter == [path |-> "", v |-> 0, inv |-> FALSE]
Filters == {NoFilter} \cup [path : Paths, v : Keys, inv : BOOLEAN]

NoIndex == [path |-> "", kind |-> "", key |-> "", entries |-> {}]

\* Collection::get_index: the first index of the list with that path
get_index(st, path) ==
    IF \E n \in DOMAIN st.ixs : st.ixs[n].path = path
    THEN st.ixs[CHOOSE n \in DOMAIN st.ixs :
                    /\ st.ixs[n].path = path
                    /\ \A m \in 1..(n - 1) : st.ixs[m].path # path]
    ELSE NoIndex

\* Filter::apply: the Selection (ids, inv) read from the index of the
\* filter's field (Collection::req_index fails when there is none)
ApplyFilter(st, f) ==
    LET ix == get_index(st, f.path)
    IN  IF ix = NoIndex THEN [ok |-> FALSE, ids |-> {}, inv |-> FALSE]
        ELSE [ok |-> TRUE,
              ids |-> {e[2] : e \in {x \in ix.entries : x[1] = f.v}},
              inv |-> f.inv]

\* Collection::find_ids
find_ids(st, f) ==
    IF f = NoFilter THEN [ok |-> TRUE, ids |-> Present(st.db)]
    ELSE LET sel == ApplyFilter(st, f)
         IN  IF ~sel.ok THEN [ok |-> FALSE, ids |-> {}]
             ELSE IF ~sel.inv THEN [ok |-> TRUE, ids |-> sel.ids]
             ELSE [ok |-> TRUE, ids |-> {i \in Present(st.db) : i \notin sel.ids}]

\* Selection::has: whether the selection (ids, inv) admits the id
SelHas(sel, id) == (id \in sel.ids) # sel.inv

\* The cursor over the primary map: first, next, last, prev (0: no entry)
CursorFirst(db) ==
    IF Present(db) = {} THEN 0 ELSE CHOOSE x \in Present(db) : \A y \in Present(db) : x <= y
CursorNext(db, id) == CursorFirst([i \in Ids |-> IF i > id THEN db[i] ELSE NoDoc])
CursorLast(db) ==
    IF Present(db) = {} THEN 0 ELSE CHOOSE x \in Present(db) : \A y \in Present(db) : y <= x
CursorPrev(db, id) == CursorLast([i \in Ids |-> IF i < id THEN db[i] ELSE NoDoc])

OrderKinds == {"Asc", "Desc"}

\* impl Iterator for PrimaryIterator: the ids it yields from the cursor
\* position `id` on, in the order the cursor is moved
RECURSIVE PrimaryFrom(_, _, _)
PrimaryFrom(db, id, order) ==
    IF id = 0 THEN << >>
    ELSE <<id>> \o PrimaryFrom(db, IF order = "Asc" THEN CursorNext(db, id)
                                                    ELSE CursorPrev(db, id), order)

PrimaryIterator(db, order) ==
    PrimaryFrom(db, IF order = "Asc" THEN CursorFirst(db) ELSE CursorLast(db), order)

\* a.cmp(b)
Cmp(a, b) == IF a < b THEN "Less" ELSE IF a = b THEN "Equal" ELSE "Greater"
order_primary_asc(a, b) == Cmp(a, b)
order_primary_desc(a, b) == Cmp(b, a)

Compare(order, a, b) ==
    IF order = "Asc" THEN order_primary_asc(a, b) ELSE order_primary_desc(a, b)

\* ids.sort_unstable_by(compare) on the vector v: each element is put before
\* the first element of the sorted part that it compares Less than
RECURSIVE InsertBy(_, _, _)
InsertBy(order, sorted, x) ==
    IF sorted = << >> THEN <<x>>
    ELSE IF Compare(order, x, Head(sorted)) = "Less" THEN <<x>> \o sorted
    ELSE <<Head(sorted)>> \o InsertBy(order, Tail(sorted), x)

RECURSIVE SortBy(_, _)
SortBy(order, v) ==
    IF v = << >> THEN << >>
    ELSE InsertBy(order, SortBy(order, SubSeq(v, 1, Len(v) - 1)), v[Len(v)])

\* The orders in which a HashSet of ids may be iterated
Orders(S) ==
    {o \in [1..Cardinality(S) -> S] : \A i, j \in DOMAIN o : o[i] = o[j] => i = j}

\* Selection::filter over the PrimaryIterator: the ids the selection admits
RECURSIVE SelFilter(_, _)
SelFilter(sel, v) ==
    IF v = << >> THEN << >>
    ELSE IF SelHas(sel, Head(v)) THEN <<Head(v)>> \o SelFilter(sel, Tail(v))
    ELSE SelFilter(sel, Tail(v))

\* Mutant of find_primary: the vector of a selection is left as drained.
find_primary_unsorted(st, f, order, h) ==
    IF f = NoFilter THEN [ok |-> TRUE, ids |-> PrimaryIterator(st.db, order)]
    ELSE LET sel == ApplyFilter(st, f)
         IN  IF ~sel.ok THEN [ok |-> FALSE, ids |-> << >>]
             ELSE IF sel.inv
             THEN [ok |-> TRUE, ids |-> SelFilter(sel, PrimaryIterator(st.db, order))]
             ELSE [ok |-> TRUE, ids |-> h]

\* The ids vector of Collection::find with Order::Primary(order); `h` is the
\* order in which the selection's HashSet is drained into the vector
find_primary(st, f, order, h) ==
    IF f = NoFilter THEN [ok |-> TRUE, ids |-> PrimaryIterator(st.db, order)]
    ELSE LET sel == ApplyFilter(st, f)
         IN  IF ~sel.ok THEN [ok |-> FALSE, ids |-> << >>]
             ELSE IF sel.inv
             THEN [ok |-> TRUE, ids |-> SelFilter(sel, PrimaryIterator(st.db, order))]
             ELSE [ok |-> TRUE, ids |-> SortBy(order, h)]

\* The ids a filter selects before any ordering (the HashSet of the selection)
Selected(st, f) ==
    IF f = NoFilter \/ ~ApplyFilter(st, f).ok \/ ApplyFilter(st, f).inv THEN {}
    ELSE ApplyFilter(st, f).ids

\* impl Iterator for DocumentsIterator, next(): None when the ids are
\* exhausted; otherwise the next id is taken and its document read in a
\* fresh read transaction: Some(Ok(doc)), or Some(Err) when it is not there
DocsNext(st, it) ==
    IF it.ids = << >> THEN [some |-> FALSE, ok |-> TRUE, err |-> "", val |-> 0, it |-> it]
    ELSE LET id == Head(it.ids)
             rest == [it EXCEPT !.ids = Tail(it.ids)]
         IN  IF get(st, id) = None
             THEN [some |-> TRUE, ok |-> FALSE, err |-> "NotFound", val |-> 0,
                   it |-> [rest EXCEPT !.failed = TRUE]]
             ELSE [some |-> TRUE, ok |-> TRUE, err |-> "", val |-> id, it |-> rest]

\* Modify: sets the field `path` to `v` (0 removes the field)
Modifies == [path : Paths, v : Vals]
ModifyApply(m, val) == [val EXCEPT ![m.path] = m.v]

\* The loop of Collection::update over the found ids, in iteration order
RECURSIVE UpdateLoop(_, _, _, _)
UpdateLoop(txn, order, n, m) ==
    IF n > Len(order) THEN [ok |-> TRUE, err |-> "", txn |-> txn]
    ELSE LET id == order[n]
             old == Get(txn.db, id)
         IN  IF old = NoDoc THEN [ok |-> FALSE, err |-> "NotFound", txn |-> txn]
             ELSE LET new == ModifyApply(m, old)
                      t1 == [txn EXCEPT !.db = DbPut(txn.db, id, new)]
                      r == update_indexes(t1, id, old, new)
                  IN  IF r.ok THEN UpdateLoop(r.txn, order, n + 1, m)
                      ELSE [ok |-> FALSE, err |-> "IndexError", txn |-> r.txn]

\* Mutant of update: what was written before the failure stays written.
update_keeps_partial(st, found, order, m) ==
    IF ~found.ok THEN Err("MissingIndex", st)
    ELSE LET r == UpdateLoop(Begin(st), order, 1, m)
         IN  IF r.ok THEN Ok(Len(order), Commit(st, r.txn))
             ELSE Err(r.err, Commit(st, r.txn))

\* Collection::update, with the ids found iterated in `order`
update(st, found, order, m) ==
    IF ~found.ok THEN Err("MissingIndex", st)
    ELSE LET r == UpdateLoop(Begin(st), order, 1, m)
         IN  IF r.ok THEN Ok(Len(order), Commit(st, r.txn))
             ELSE Err(r.err, Dropped(st, r.txn))

\* The loop of Collection::remove over the found ids, in iteration order
RECURSIVE RemoveLoop(_, _, _)
RemoveLoop(txn, order, n) ==
    IF n > Len(order) THEN [ok |-> TRUE, err |-> "", txn |-> txn]
    ELSE LET id == order[n]
             old == Get(txn.db, id)
         IN  IF old = NoDoc THEN [ok |-> FALSE, err |-> "NotFound", txn |-> txn]
             ELSE LET t1 == [txn EXCEPT !.db = DbDel(txn.db, id)]
                      r == update_indexes(t1, id, old, NoDoc)
                  IN  IF r.ok THEN RemoveLoop(r.txn, order, n + 1)
                      ELSE [ok |-> FALSE, err |-> "IndexError", txn |-> r.txn]

\* Collection::remove, with the ids found iterated in `order`
remove(st, found, order) ==
    IF ~found.ok THEN Err("MissingIndex", st)
    ELSE LET r == RemoveLoop(Begin(st), order, 1)
         IN  IF r.ok THEN Ok(Len(order), Commit(st, r.txn))
             ELSE Err(r.err, Dropped(st, r.txn))

\* ----------------------------------------------------------- index manager
HasIndex(st, path) == \E n \in DOMAIN st.ixs : st.ixs[n].path = path

\* The backfill loop of Collection::create_index: every document of the
\* primary map, in key order, from `id` on
RECURSIVE Backfill(_, _, _)
Backfill(ix, db, id) ==
    IF id > MaxId THEN [ok |-> TRUE, ix |-> ix]
    ELSE IF db[id] = NoDoc THEN Backfill(ix, db, id + 1)
    ELSE LET r == UpdateIndex(ix, id, NoDoc, db[id])
         IN  IF r.ok THEN Backfill(r.ix, db, id + 1) ELSE [ok |-> FALSE, ix |-> r.ix]

\* Mutant of create_index: the new index is appended without the backfill.
create_index_no_backfill(st, path, kind, key) ==
    IF HasIndex(st, path) THEN Ok(0, st)
    ELSE Ok(1, [st EXCEPT !.ixs = Append(st.ixs, NewIndex(path, kind, key))])

\* Collection::create_index: val 1 is true, val 0 is false
create_index(st, path, kind, key) ==
    IF HasIndex(st, path) THEN Ok(0, st)
    ELSE LET r == Backfill(NewIndex(path, kind, key), st.db, 1)
         IN  IF r.ok THEN Ok(1, [st EXCEPT !.ixs = Append(st.ixs, r.ix)])
             ELSE Err("IndexError", st)

RemoveAt(s, pos) == SubSeq(s, 1, pos - 1) \o SubSeq(s, pos + 1, Len(s))

\* iter().position(..): the first position holding an index for path, 0 for None
Position(ixs, path) ==
    IF \E n \in DOMAIN ixs : ixs[n].path = path
    THEN CHOOSE n \in DOMAIN ixs :
            ixs[n].path = path /\ \A m \in 1..(n - 1) : ixs[m].path # path
    ELSE 0

\* Collection::drop_index: the index leaves the list; the write transaction
\* that marks it for deletion is not committed (the removed index's own
\* database is no longer reachable from the collection)
drop_index(st, path) ==
    LET pos == Position(st.ixs, path)
    IN  IF pos = 0 THEN Ok(0, st)
        ELSE Ok(1, [st EXCEPT !.ixs = RemoveAt(st.ixs, pos)])

\* Mutant of ensure_index: an index of the same kind is taken for the same
\* index, whatever its key type.
ensure_index_kind_only(st, path, kind, key) ==
    LET ix == get_index(st, path)
    IN  IF ix # NoIndex /\ ix.kind = kind THEN Ok(0, st)
        ELSE IF ix # NoIndex
        THEN LET d == drop_index(st, path)
             IN  IF d.ok THEN create_index(d.st, path, kind, key) ELSE d
        ELSE create_index(st, path, kind, key)

\* Collection::ensure_index
ensure_index(st, path, kind, key) ==
    LET ix == get_index(st, path)
    IN  IF ix # NoIndex /\ ix.kind = kind /\ ix.key = key THEN Ok(0, st)
        ELSE IF ix # NoIndex
        THEN LET d == drop_index(st, path)
             IN  IF d.ok THEN create_index(d.st, path, kind, key) ELSE d
        ELSE create_index(st, path, kind, key)

\* The loop of Collection::set_indexes over fields[n..]: ensure_index(..)?
RECURSIVE SetFrom(_, _, _)
SetFrom(st, fields, n) ==
    IF n > Len(fields) THEN Ok(0, st)
    ELSE LET r == ensure_index(st, fields[n].path, fields[n].kind, fields[n].key)
         IN  IF r.ok THEN SetFrom(r.st, fields, n + 1) ELSE Err(r.err, r.st)

\* Mutant of set_indexes: the indexes of the paths not listed are dropped first.
set_indexes_overriding(st, fields) ==
    SetFrom([st EXCEPT !.ixs = SelectSeq(st.ixs,
                LAMBDA ix : \E n \in DOMAIN fields : fields[n].path = ix.path)],
            fields, 1)

\* Collection::set_indexes
set_indexes(st, fields) == SetFrom(st, fields, 1)

\* Collection::to_delete: the indexes and the primary map are cleared inside
\* a write transaction that is never committed; the caller sets the marker.
to_delete(st) ==
    LET txn == Begin(st)
        t1 == [txn EXCEPT !.ixs = [n \in DOMAIN txn.ixs |-> PurgeIndex(txn.ixs[n])]]
        t2 == [t1 EXCEPT !.db = EmptyDb]
    IN  Ok(0, Dropped(st, t2))

\* ------------------------------------------------------- handle lifecycle
\* Strong references to the shared CollectionData
Strong == users + iters + failing

\* Mutant of TryUnwrap: the data is taken whatever the reference count.
TryUnwrapAny(strong) == strong >= 1

\* Arc::try_unwrap(data) in Drop: succeeds only for the one remaining reference
TryUnwrap(strong) == strong = 1

\* --------------------------------------------------------------- the state
St == [db |-> primary, ixs |-> indexes]

\* No thread is inside a call, no write transaction is open.
Threads == {"t1", "t2"}
NoRes == [ok |-> TRUE, err |-> "", val |-> 0]
Idle == [op |-> "none", pc |-> "idle", arg |-> 0, ids |-> << >>, id |-> 0,
         ix |-> NoIndex, res |-> NoRes, fresh |-> {}]
NoTxn == [owner |-> "", db |-> EmptyDb, ents |-> << >>]

\* No call is outstanding: the caller holds no result.
NoCall == [op |-> "none", arg |-> 0, ok |-> TRUE, err |-> "", val |-> 0]

\* Calls are made one at a time, through a handle the caller holds.
CanCall == users >= 1 /\ ret = NoCall

Init ==
    /\ primary = EmptyDb
    /\ indexes = << >>
    /\ delete = FALSE
    /\ users = 1
    /\ iters = 0
    /\ failing = 0
    /\ dbDeleted = 0
    /\ issued = 0
    /\ ret = NoCall
    /\ docIters = << >>
    /\ th = [t \in Threads |-> Idle]
    /\ wtxn = NoTxn
    /\ ixlock = ""

\* A call through a live handle returned r: its storage is the committed one.
Returns(op, arg, r) ==
    /\ primary' = r.st.db
    /\ indexes' = r.st.ixs
    /\ ret' = [op |-> op, arg |-> arg, ok |-> r.ok, err |-> r.err, val |-> r.val]

LoadInputs == UNION {[1..n -> RawDocs] : n \in 0..MaxLoad}

IndexArgs == [path : Paths, kind : Kinds, key : KeyTypes]

Insert ==
    /\ CanCall
    /\ last_id(primary) < MaxId
    /\ \E val \in DocVals :
        LET r == insert(St, val)
        IN  /\ Returns("insert", 0, r)
            /\ issued' = IF r.ok /\ r.val > issued THEN r.val ELSE issued
    /\ UNCHANGED <<delete, users, iters, failing, dbDeleted>>
    /\ UNCHANGED <<docIters, th, wtxn, ixlock>>

Put ==
    /\ CanCall
    /\ \E doc \in RawDocs : Returns("put", doc, put(St, doc))
    /\ UNCHANGED <<delete, users, iters, failing, dbDeleted, issued>>
    /\ UNCHANGED <<docIters, th, wtxn, ixlock>>

Delete ==
    /\ CanCall
    /\ \E id \in Ids : Returns("delete", id, delete_doc(St, id))
    /\ UNCHANGED <<delete, users, iters, failing, dbDeleted, issued>>
    /\ UNCHANGED <<docIters, th, wtxn, ixlock>>

Update ==
    /\ CanCall
    /\ \E f \in Filters, m \in Modifies :
        LET found == find_ids(St, f)
        IN  \E order \in Orders(found.ids) :
                Returns("update", [f |-> f, m |-> m], update(St, found, order, m))
    /\ UNCHANGED <<delete, users, iters, failing, dbDeleted, issued>>
    /\ UNCHANGED <<docIters, th, wtxn, ixlock>>

Remove ==
    /\ CanCall
    /\ \E f \in Filters :
        LET found == find_ids(St, f)
        IN  \E order \in Orders(found.ids) :
                Returns("remove", 0, remove(St, found, order))
    /\ UNCHANGED <<delete, users, iters, failing, dbDeleted, issued>>
    /\ UNCHANGED <<docIters, th, wtxn, ixlock>>

Load ==
    /\ CanCall
    /\ \E docs \in LoadInputs :
        Returns("load", {docs[n].id : n \in DOMAIN docs}, load(St, docs))
    /\ UNCHANGED <<delete, users, iters, failing, dbDeleted, issued>>
    /\ UNCHANGED <<docIters, th, wtxn, ixlock>>

Purge ==
    /\ CanCall
    /\ Returns("purge", 0, purge(St))
    /\ UNCHANGED <<delete, users, iters, failing, dbDeleted, issued>>
    /\ UNCHANGED <<docIters, th, wtxn, ixlock>>

CreateIndex ==
    /\ CanCall
    /\ \E a \in IndexArgs :
        Returns("create_index", a, create_index(St, a.path, a.kind, a.key))
    /\ UNCHANGED <<delete, users, iters, failing, dbDeleted, issued>>
    /\ UNCHANGED <<docIters, th, wtxn, ixlock>>

EnsureIndex ==
    /\ CanCall
    /\ \E a \in IndexArgs :
        Returns("ensure_index", a, ensure_index(St, a.path, a.kind, a.key))
    /\ UNCHANGED <<delete, users, iters, failing, dbDeleted, issued>>
    /\ UNCHANGED <<docIters, th, wtxn, ixlock>>

DropIndex ==
    /\ CanCall
    /\ \E path \in Paths : Returns("drop_index", path, drop_index(St, path))
    /\ UNCHANGED <<delete, users, iters, failing, dbDeleted, issued>>
    /\ UNCHANGED <<docIters, th, wtxn, ixlock>>

FieldLists == UNION {[1..n -> IndexArgs] : n \in 0..MaxFields}

SetIndexes ==
    /\ CanCall
    /\ \E fields \in FieldLists :
        Returns("set_indexes", [fields |-> fields], set_indexes(St, fields))
    /\ UNCHANGED <<delete, users, iters, failing, dbDeleted, issued>>
    /\ UNCHANGED <<docIters, th, wtxn, ixlock>>

\* #[derive(Clone)]: one more strong reference to the shared data
Clone ==
    /\ users >= 1
    /\ Strong < MaxHandles
    /\ users' = users + 1
    /\ UNCHANGED <<primary, indexes, delete, iters, failing, dbDeleted, issued, ret>>
    /\ UNCHANGED <<docIters, th, wtxn, ixlock>>

\* Collection::find over the primary order: the DocumentsIterator it returns
\* holds the ids vector and a clone of the collection; a failing filter
\* returns no iterator.
Find ==
    /\ CanCall
    /\ Strong < MaxHandles
    /\ \E f \in Filters, order \in OrderKinds :
        \E h \in Orders(Selected(St, f)) :
            LET found == find_primary(St, f, order, h)
            IN  /\ iters' = IF found.ok THEN iters + 1 ELSE iters
                /\ docIters' = IF found.ok
                           THEN Append(docIters, [ids |-> found.ids, failed |-> FALSE])
                           ELSE docIters
                /\ Returns("find", [f |-> f, order |-> order, ids |-> found.ids],
                           IF found.ok THEN Ok(Len(found.ids), St)
                                       ELSE Err("MissingIndex", St))
    /\ UNCHANGED <<delete, users, failing, dbDeleted, issued>>
    /\ UNCHANGED <<th, wtxn, ixlock>>

\* DocumentsIterator::next on the live iterator i
IterNext ==
    /\ ret = NoCall
    /\ \E i \in DOMAIN docIters :
        LET r == DocsNext(St, docIters[i])
        IN  /\ docIters' = [docIters EXCEPT ![i] = r.it]
            /\ ret' = [op |-> "next", arg |-> i,
                       ok |-> r.ok, err |-> r.err, val |-> r.val]
    /\ UNCHANGED <<primary, indexes, delete, users, iters, failing, dbDeleted, issued>>
    /\ UNCHANGED <<th, wtxn, ixlock>>

ToDelete ==
    /\ CanCall
    /\ Returns("to_delete", 0, to_delete(St))
    /\ delete' = TRUE
    /\ UNCHANGED <<users, iters, failing, dbDeleted, issued>>
    /\ UNCHANGED <<docIters, th, wtxn, ixlock>>

\* impl Drop for Collection, up to the if-let: try_unwrap either yields the
\* data (and db.delete() runs when the marker is set) or hands the Arc back.
DropUser ==
    /\ users >= 1
    /\ users' = users - 1
    /\ IF TryUnwrap(Strong)
       THEN /\ dbDeleted' = IF delete THEN dbDeleted + 1 ELSE dbDeleted
            /\ failing' = failing
       ELSE /\ dbDeleted' = dbDeleted
            /\ failing' = failing + 1
    /\ UNCHANGED <<primary, indexes, delete, iters, issued, ret>>
    /\ UNCHANGED <<docIters, th, wtxn, ixlock>>

\* The drop of a DocumentsIterator drops the clone it holds.
DropIter ==
    /\ iters >= 1
    /\ iters' = iters - 1
    /\ \E i \in DOMAIN docIters : docIters' = RemoveAt(docIters, i)
    /\ IF TryUnwrap(Strong)
       THEN /\ dbDeleted' = IF delete THEN dbDeleted + 1 ELSE dbDeleted
            /\ failing' = failing
       ELSE /\ dbDeleted' = dbDeleted
            /\ failing' = failing + 1
    /\ UNCHANGED <<primary, indexes, delete, users, issued, ret>>
    /\ UNCHANGED <<th, wtxn, ixlock>>

\* The Arc that try_unwrap handed back is released at the end of drop.
Release ==
    /\ failing >= 1
    /\ failing' = failing - 1
    /\ UNCHANGED <<primary, indexes, delete, users, iters, dbDeleted, issued, ret>>
    /\ UNCHANGED <<docIters, th, wtxn, ixlock>>

\* The caller takes the result of the call it made.
Return ==
    /\ ret # NoCall
    /\ ret' = NoCall
    /\ UNCHANGED <<primary, indexes, delete, users, iters, failing, dbDeleted, issued>>
    /\ UNCHANGED <<docIters, th, wtxn, ixlock>>

\* ------------------------------------------------------------ threads
\* Several threads call through clones of one handle. A call is cut where the
\* code can block or where another thread can come between: before
\* WriteTransaction::new (one writer at a time), before handle.indexes.read()
\* and .write(), and between a read transaction and what follows it.

\* The inputs of the calls that threads make
ConcVals == {v \in DocVals : v.b = 0}
ConcFilters == {NoFilter} \cup [path : {"a"}, v : Keys, inv : BOOLEAN]
ConcModifies == [path : {"a"}, v : Vals]
ConcIndexArgs == [path : Paths, kind : Kinds, key : {"Int"}]

\* The storage as the open write transaction sees it: its primary map and,
\* for each index of the list, the entries it has written or found.
View ==
    [db |-> wtxn.db,
     ixs |-> [n \in DOMAIN indexes |-> [indexes[n] EXCEPT !.entries = wtxn.ents[n]]]]

EntriesOf(ixs) == [n \in DOMAIN ixs |-> ixs[n].entries]

\* txn.commit() by the owner
CommitTxn(txn) ==
    /\ primary' = txn.db
    /\ indexes' = txn.ixs
    /\ wtxn' = NoTxn

\* The owner's WriteTransaction is dropped without commit
AbortTxn ==
    /\ wtxn' = NoTxn
    /\ UNCHANGED <<primary, indexes>>

\* The owner goes on inside its transaction
KeepTxn(txn) ==
    /\ wtxn' = [wtxn EXCEPT !.db = txn.db, !.ents = EntriesOf(txn.ixs)]
    /\ UNCHANGED <<primary, indexes>>

\* handle.indexes.read() / .write(): Err once a panic has poisoned the lock
Poisoned == ixlock = "poisoned"
LockFree == ixlock = ""

Enter(t, c) == th' = [th EXCEPT ![t] = c]
Done(t, res) == th' = [th EXCEPT ![t].pc = "done", ![t].res = res]

\* The insert of t has committed the new document id: the threads that hold
\* this id among the ids they captured note that it now names a new
\* document (history).
DoneInserted(t, id) ==
    th' = [u \in Threads |->
            IF u = t THEN [th[t] EXCEPT !.pc = "done", !.res = [ok |-> TRUE, err |-> "", val |-> id]]
            ELSE IF /\ th[u].op \in {"update", "remove"}
                    /\ th[u].pc = "begin"
                    /\ id \in th[u].arg.found
            THEN [th[u] EXCEPT !.fresh = @ \cup {id}]
            ELSE th[u]]
ResOk(val) == [ok |-> TRUE, err |-> "", val |-> val]
ResErr(err) == [ok |-> FALSE, err |-> err, val |-> 0]

\* The greatest id that is stored or about to be written
PendingTop ==
    SetMax({last_id(primary)} \cup
           {th[u].id : u \in {x \in Threads : /\ th[x].op \in {"insert", "put"}
                                              /\ th[x].pc \in {"begin", "write"}}})
AtNewId == Cardinality({u \in Threads : th[u].pc = "new_id"})

\* ---- the calls
CallInsert(t) ==
    /\ th[t].pc = "idle"
    /\ PendingTop + AtNewId < MaxId
    /\ \E val \in ConcVals : Enter(t, [Idle EXCEPT !.op = "insert", !.pc = "new_id", !.arg = val])
    /\ UNCHANGED <<primary, indexes, wtxn, ixlock>>
    /\ UNCHANGED <<delete, users, iters, failing, dbDeleted, issued, ret, docIters>>

CallPut(t) ==
    /\ th[t].pc = "idle"
    /\ \E id \in Ids, val \in ConcVals :
        /\ id + AtNewId <= MaxId
        /\ Enter(t, [Idle EXCEPT !.op = "put", !.pc = "begin", !.id = id, !.arg = val])
    /\ UNCHANGED <<primary, indexes, wtxn, ixlock>>
    /\ UNCHANGED <<delete, users, iters, failing, dbDeleted, issued, ret, docIters>>

CallDelete(t) ==
    /\ th[t].pc = "idle"
    /\ \E id \in Ids : Enter(t, [Idle EXCEPT !.op = "delete", !.pc = "begin", !.id = id])
    /\ UNCHANGED <<primary, indexes, wtxn, ixlock>>
    /\ UNCHANGED <<delete, users, iters, failing, dbDeleted, issued, ret, docIters>>

CallUpdate(t) ==
    /\ th[t].pc = "idle"
    /\ \E f \in ConcFilters, m \in ConcModifies :
        Enter(t, [Idle EXCEPT !.op = "update", !.pc = "find",
                              !.arg = [f |-> f, m |-> m, found |-> {}]])
    /\ UNCHANGED <<primary, indexes, wtxn, ixlock>>
    /\ UNCHANGED <<delete, users, iters, failing, dbDeleted, issued, ret, docIters>>

CallRemove(t) ==
    /\ th[t].pc = "idle"
    /\ \E f \in ConcFilters :
        Enter(t, [Idle EXCEPT !.op = "remove", !.pc = "find",
                              !.arg = [f |-> f, m |-> 0, found |-> {}]])
    /\ UNCHANGED <<primary, indexes, wtxn, ixlock>>
    /\ UNCHANGED <<delete, users, iters, failing, dbDeleted, issued, ret, docIters>>

CallCreateIndex(t) ==
    /\ th[t].pc = "idle"
    /\ \E a \in ConcIndexArgs :
        Enter(t, [Idle EXCEPT !.op = "create_index", !.pc = "check", !.arg = a])
    /\ UNCHANGED <<primary, indexes, wtxn, ixlock>>
    /\ UNCHANGED <<delete, users, iters, failing, dbDeleted, issued, ret, docIters>>

CallDropIndex(t) ==
    /\ th[t].pc = "idle"
    /\ \E path \in Paths :
        Enter(t, [Idle EXCEPT !.op = "drop_index", !.pc = "position",
                              !.arg = [path |-> path, kind |-> "", key |-> ""]])
    /\ UNCHANGED <<primary, indexes, wtxn, ixlock>>
    /\ UNCHANGED <<delete, users, iters, failing, dbDeleted, issued, ret, docIters>>

CallEnsureIndex(t) ==
    /\ th[t].pc = "idle"
    /\ \E a \in ConcIndexArgs :
        Enter(t, [Idle EXCEPT !.op = "ensure_index", !.pc = "get", !.arg = a])
    /\ UNCHANGED <<primary, indexes, wtxn, ixlock>>
    /\ UNCHANGED <<delete, users, iters, failing, dbDeleted, issued, ret, docIters>>

\* set_indexes(fields): ensure_index for each field in turn; `ids` holds the
\* fields still to come
ConcFieldLists == UNION {[1..n -> ConcIndexArgs] : n \in 0..MaxFields}

CallSetIndexes(t) ==
    /\ th[t].pc = "idle"
    /\ \E fields \in ConcFieldLists :
        IF fields = << >>
        THEN Enter(t, [Idle EXCEPT !.op = "set_indexes", !.pc = "done"])
        ELSE Enter(t, [Idle EXCEPT !.op = "set_indexes", !.pc = "get",
                                   !.arg = Head(fields), !.ids = Tail(fields)])
    /\ UNCHANGED <<primary, indexes, wtxn, ixlock>>
    /\ UNCHANGED <<delete, users, iters, failing, dbDeleted, issued, ret, docIters>>

\* ---- the steps of the mutations
\* insert: new_id(), in its own read transaction, before put_raw opens the
\* write transaction
NewId(t) ==
    /\ th[t].pc = "new_id"
    /\ th' = [th EXCEPT ![t].id = new_id(primary), ![t].pc = "begin"]
    /\ UNCHANGED <<primary, indexes, wtxn, ixlock>>
    /\ UNCHANGED <<delete, users, iters, failing, dbDeleted, issued, ret, docIters>>

\* update, remove: found_ids = self.find_ids(filter)?, in its own read
\* transaction; a filter reads the index list under handle.indexes.read()
FindIds(t) ==
    /\ th[t].pc = "find"
    /\ LET f == th[t].arg.f
       IN  IF f # NoFilter /\ Poisoned THEN Done(t, ResErr("Poisoned"))
           ELSE /\ f = NoFilter \/ LockFree
                /\ LET found == find_ids(St, f)
                   IN  IF ~found.ok THEN Done(t, ResErr("MissingIndex"))
                       ELSE \E order \in Orders(found.ids) :
                                th' = [th EXCEPT ![t].pc = "begin",
                                                 ![t].ids = order,
                                                 ![t].arg.found = found.ids]
    /\ UNCHANGED <<primary, indexes, wtxn, ixlock>>
    /\ UNCHANGED <<delete, users, iters, failing, dbDeleted, issued, ret, docIters>>

\* WriteTransaction::new: waits until no other write transaction is open
BeginTxn(t) ==
    /\ th[t].pc = "begin"
    /\ wtxn.owner = ""
    /\ wtxn' = [owner |-> t, db |-> primary, ents |-> EntriesOf(indexes)]
    /\ th' = [th EXCEPT ![t].pc = "write"]
    /\ UNCHANGED <<primary, indexes, ixlock>>
    /\ UNCHANGED <<delete, users, iters, failing, dbDeleted, issued, ret, docIters>>

\* put_raw inside its transaction: get, put, update_indexes
PutInTxn(txn, id, val) ==
    LET old == Get(txn.db, id)
        t1 == [txn EXCEPT !.db = DbPut(txn.db, id, val)]
        r == update_indexes(t1, id, old, val)
    IN  [ok |-> r.ok, err |-> IF r.ok THEN "" ELSE "IndexError", txn |-> r.txn]

\* delete inside its transaction, for a document that is there
DeleteInTxn(txn, id) ==
    LET old == Get(txn.db, id)
        t1 == [txn EXCEPT !.db = DbDel(txn.db, id)]
        r == update_indexes(t1, id, old, NoDoc)
    IN  [ok |-> r.ok, err |-> IF r.ok THEN "" ELSE "IndexError", txn |-> r.txn]

\* One turn of the loop of update or remove inside its transaction
LoopInTxn(txn, op, id, m) ==
    IF op = "update" THEN UpdateLoop(txn, <<id>>, 1, m) ELSE RemoveLoop(txn, <<id>>, 1)

\* insert, put: the owner of the write transaction writes the document,
\* updates the indexes under handle.indexes.read() and commits. It waits
\* while the index list is write-locked and fails when the lock is poisoned.
WritePut(t) ==
    /\ th[t].pc = "write"
    /\ th[t].op \in {"insert", "put"}
    /\ wtxn.owner = t
    /\ IF Poisoned THEN AbortTxn /\ Done(t, ResErr("Poisoned"))
       ELSE /\ LockFree
            /\ LET r == PutInTxn(View, th[t].id, th[t].arg)
               IN  IF r.ok
                   THEN /\ CommitTxn(r.txn)
                        /\ IF th[t].op = "insert" THEN DoneInserted(t, th[t].id)
                           ELSE Done(t, ResOk(0))
                   ELSE AbortTxn /\ Done(t, ResErr(r.err))
    /\ UNCHANGED ixlock
    /\ UNCHANGED <<delete, users, iters, failing, dbDeleted, issued, ret, docIters>>

\* delete: Ok(false) when the document is not there; otherwise as for put
WriteDelete(t) ==
    /\ th[t].pc = "write"
    /\ th[t].op = "delete"
    /\ wtxn.owner = t
    /\ IF Get(wtxn.db, th[t].id) = NoDoc THEN AbortTxn /\ Done(t, ResOk(0))
       ELSE IF Poisoned THEN AbortTxn /\ Done(t, ResErr("Poisoned"))
       ELSE /\ LockFree
            /\ LET r == DeleteInTxn(View, th[t].id)
               IN  IF r.ok THEN CommitTxn(r.txn) /\ Done(t, ResOk(1))
                   ELSE AbortTxn /\ Done(t, ResErr(r.err))
    /\ UNCHANGED ixlock
    /\ UNCHANGED <<delete, users, iters, failing, dbDeleted, issued, ret, docIters>>

\* update, remove: one turn of the loop over the ids found; a document that
\* is not there ends the call with an error; after the last turn the
\* transaction is committed and the count returned
WriteLoop(t) ==
    /\ th[t].pc = "write"
    /\ th[t].op \in {"update", "remove"}
    /\ wtxn.owner = t
    /\ IF th[t].ids = << >>
       THEN CommitTxn(View) /\ Done(t, ResOk(Cardinality(th[t].arg.found)))
       ELSE IF Get(wtxn.db, Head(th[t].ids)) # NoDoc /\ Poisoned
       THEN AbortTxn /\ Done(t, ResErr("Poisoned"))
       ELSE /\ Get(wtxn.db, Head(th[t].ids)) # NoDoc => LockFree
            /\ LET r == LoopInTxn(View, th[t].op, Head(th[t].ids), th[t].arg.m)
               IN  IF ~r.ok THEN AbortTxn /\ Done(t, ResErr(r.err))
                   ELSE IF Len(th[t].ids) = 1
                   THEN /\ CommitTxn(r.txn)
                        /\ Done(t, ResOk(Cardinality(th[t].arg.found)))
                   ELSE /\ KeepTxn(r.txn)
                        /\ th' = [th EXCEPT ![t].ids = Tail(th[t].ids)]
    /\ UNCHANGED ixlock
    /\ UNCHANGED <<delete, users, iters, failing, dbDeleted, issued, ret, docIters>>

\* ---- the steps of the index manager
\* What follows the Ok(val) of create_index or ensure_index: set_indexes goes
\* on to the ensure_index of its next field, and returns Ok(()) after the last
EnsureDone(t, val) ==
    IF th[t].op # "set_indexes" THEN Done(t, ResOk(val))
    ELSE IF th[t].ids = << >> THEN Done(t, ResOk(0))
    ELSE th' = [th EXCEPT ![t].pc = "get", ![t].arg = Head(th[t].ids),
                          ![t].ids = Tail(th[t].ids), ![t].ix = NoIndex,
                          ![t].id = 0]

\* ensure_index: get_index under the read lock; the same index is kept, a
\* differing one is dropped first
EnsureGet(t) ==
    /\ th[t].pc = "get"
    /\ IF Poisoned THEN Done(t, ResErr("Poisoned"))
       ELSE /\ LockFree
            /\ LET a == th[t].arg
                   ix == get_index(St, a.path)
               IN  IF ix # NoIndex /\ ix.kind = a.kind /\ ix.key = a.key
                   THEN EnsureDone(t, 0)
                   ELSE th' = [th EXCEPT ![t].pc = IF ix # NoIndex THEN "position"
                                                                  ELSE "check"]
    /\ UNCHANGED <<primary, indexes, wtxn, ixlock>>
    /\ UNCHANGED <<delete, users, iters, failing, dbDeleted, issued, ret, docIters>>

\* What follows drop_index: ensure_index goes on to create_index
AfterDrop(t, val) ==
    IF th[t].op \in {"ensure_index", "set_indexes"}
    THEN th' = [th EXCEPT ![t].pc = "check"]
    ELSE Done(t, ResOk(val))

\* drop_index: the position of the index, found under the read lock
DropPosition(t) ==
    /\ th[t].pc = "position"
    /\ IF Poisoned THEN Done(t, ResErr("Poisoned"))
       ELSE /\ LockFree
            /\ LET pos == Position(indexes, th[t].arg.path)
               IN  IF pos = 0 THEN AfterDrop(t, 0)
                   ELSE th' = [th EXCEPT ![t].pc = "remove", ![t].id = pos]
    /\ UNCHANGED <<primary, indexes, wtxn, ixlock>>
    /\ UNCHANGED <<delete, users, iters, failing, dbDeleted, issued, ret, docIters>>

\* drop_index: handle.indexes.write(), then indexes.remove(pos), which
\* panics when pos is past the end: the thread dies and the lock is poisoned
DropRemove(t) ==
    /\ th[t].pc = "remove"
    /\ IF Poisoned THEN Done(t, ResErr("Poisoned")) /\ UNCHANGED <<indexes, wtxn, ixlock>>
       ELSE /\ LockFree
            /\ IF th[t].id > Len(indexes)
               THEN /\ ixlock' = "poisoned"
                    /\ th' = [th EXCEPT ![t].pc = "panicked"]
                    /\ UNCHANGED <<indexes, wtxn>>
               ELSE /\ ixlock' = t
                    /\ indexes' = RemoveAt(indexes, th[t].id)
                    /\ wtxn' = IF wtxn.owner = "" THEN wtxn
                               ELSE [wtxn EXCEPT !.ents = RemoveAt(wtxn.ents, th[t].id)]
                    /\ th' = [th EXCEPT ![t].pc = "mark", ![t].ix = indexes[th[t].id]]
    /\ UNCHANGED primary
    /\ UNCHANGED <<delete, users, iters, failing, dbDeleted, issued, ret, docIters>>

\* drop_index: WriteTransaction::new with the write lock still held, then
\* index.to_delete; the transaction is dropped uncommitted and the lock
\* released when the function returns
DropMark(t) ==
    /\ th[t].pc = "mark"
    /\ wtxn.owner = ""
    /\ ixlock' = ""
    /\ AfterDrop(t, 1)
    /\ UNCHANGED <<primary, indexes, wtxn>>
    /\ UNCHANGED <<delete, users, iters, failing, dbDeleted, issued, ret, docIters>>

\* create_index: the search for an index of the path, under the read lock
CreateCheck(t) ==
    /\ th[t].pc = "check"
    /\ IF Poisoned THEN Done(t, ResErr("Poisoned"))
       ELSE /\ LockFree
            /\ IF HasIndex(St, th[t].arg.path) THEN EnsureDone(t, 0)
               ELSE th' = [th EXCEPT ![t].pc = "backfill",
                                     ![t].ix = NewIndex(th[t].arg.path, th[t].arg.kind,
                                                        th[t].arg.key)]
    /\ UNCHANGED <<primary, indexes, wtxn, ixlock>>
    /\ UNCHANGED <<delete, users, iters, failing, dbDeleted, issued, ret, docIters>>

\* create_index: the write transaction that fills the new index from the
\* documents a read transaction sees, and commits
CreateBackfill(t) ==
    /\ th[t].pc = "backfill"
    /\ wtxn.owner = ""
    /\ LET r == Backfill(th[t].ix, primary, 1)
       IN  IF r.ok THEN th' = [th EXCEPT ![t].pc = "push", ![t].ix = r.ix]
           ELSE Done(t, ResErr("IndexError"))
    /\ UNCHANGED <<primary, indexes, wtxn, ixlock>>
    /\ UNCHANGED <<delete, users, iters, failing, dbDeleted, issued, ret, docIters>>

\* create_index: handle.indexes.write() and indexes.push(index)
CreatePush(t) ==
    /\ th[t].pc = "push"
    /\ IF Poisoned THEN Done(t, ResErr("Poisoned")) /\ UNCHANGED <<indexes, wtxn>>
       ELSE /\ LockFree
            /\ indexes' = Append(indexes, th[t].ix)
            /\ wtxn' = IF wtxn.owner = "" THEN wtxn
                       ELSE [wtxn EXCEPT !.ents = Append(wtxn.ents, th[t].ix.entries)]
            /\ EnsureDone(t, 1)
    /\ UNCHANGED <<primary, ixlock>>
    /\ UNCHANGED <<delete, users, iters, failing, dbDeleted, issued, ret, docIters>>

\* The caller takes the result; the thread is free for its next call.
Finish(t) ==
    /\ th[t].pc = "done"
    /\ th' = [th EXCEPT ![t] = Idle]
    /\ UNCHANGED <<primary, indexes, wtxn, ixlock>>
    /\ UNCHANGED <<delete, users, iters, failing, dbDeleted, issued, ret, docIters>>

Next ==
    \/ Insert
    \/ Put
    \/ Delete
    \/ Update
    \/ Remove
    \/ Load
    \/ Purge
    \/ CreateIndex
    \/ EnsureIndex
    \/ DropIndex
    \/ Return

Spec == Init /\ [][Next]_vars

\* The handle's life: clones, iterators, the remove marker and the drops,
\* on a collection that documents are inserted into and deleted from.
NextLife ==
    \/ Clone
    \/ Find
    \/ ToDelete
    \/ DropUser
    \/ DropIter
    \/ Release
    \/ Insert
    \/ Delete
    \/ Return

SpecLife == Init /\ [][NextLife]_vars

\* Queries: finds over a collection with indexes, their iterators stepped
\* while documents are put and deleted.
NextFind ==
    \/ Insert
    \/ Put
    \/ Delete
    \/ CreateIndex
    \/ Find
    \/ IterNext
    \/ DropIter
    \/ Release
    \/ Return

SpecFind == Init /\ [][NextFind]_vars

\* The index list set as a whole, on a collection whose documents are put
\* and deleted.
NextSet ==
    \/ Put
    \/ Delete
    \/ SetIndexes
    \/ DropIndex
    \/ Return

SpecSet == Init /\ [][NextSet]_vars

\* Collection::new(storage, def, index_defs): the collection is opened with
\* the indexes of its definition.
IndexDefs == {<< >>, <<NewIndex("a", "NonUnique", "Int")>>, <<NewIndex("a", "Unique", "Int")>>}

InitWith ==
    /\ primary = EmptyDb
    /\ indexes \in IndexDefs
    /\ delete = FALSE
    /\ users = 1
    /\ iters = 0
    /\ failing = 0
    /\ dbDeleted = 0
    /\ issued = 0
    /\ ret = NoCall
    /\ docIters = << >>
    /\ th = [t \in Threads |-> Idle]
    /\ wtxn = NoTxn
    /\ ixlock = ""

\* Threads that insert, delete, update and remove documents at the same time.
NextDocs ==
    \E t \in Threads :
        \/ CallInsert(t)
        \/ CallDelete(t)
        \/ CallUpdate(t)
        \/ CallRemove(t)
        \/ NewId(t)
        \/ FindIds(t)
        \/ BeginTxn(t)
        \/ WritePut(t)
        \/ WriteDelete(t)
        \/ WriteLoop(t)
        \/ Finish(t)

SpecDocs == InitWith /\ [][NextDocs]_vars

\* One thread creates indexes while the other puts and deletes documents.
NextCreate ==
    \/ CallCreateIndex("t1")
    \/ CallPut("t2")
    \/ CallDelete("t2")
    \/ \E t \in Threads :
        \/ BeginTxn(t)
        \/ WritePut(t)
        \/ WriteDelete(t)
        \/ CreateCheck(t)
        \/ CreateBackfill(t)
        \/ CreatePush(t)
        \/ Finish(t)

SpecCreate == Init /\ [][NextCreate]_vars

\* One thread creates, ensures and drops indexes while the other inserts,
\* puts and deletes documents.
NextDrop ==
    \/ CallCreateIndex("t1")
    \/ CallEnsureIndex("t1")
    \/ CallDropIndex("t1")
    \/ CallInsert("t2")
    \/ CallPut("t2")
    \/ CallDelete("t2")
    \/ \E t \in Threads :
        \/ NewId(t)
        \/ BeginTxn(t)
        \/ WritePut(t)
        \/ WriteDelete(t)
        \/ EnsureGet(t)
        \/ DropPosition(t)
        \/ DropRemove(t)
        \/ DropMark(t)
        \/ CreateCheck(t)
        \/ CreateBackfill(t)
        \/ CreatePush(t)
        \/ Finish(t)

SpecDrop == Init /\ [][NextDrop]_vars

\* Threads that create, ensure and drop indexes side by side, one of them
\* also setting the indexes from a list of fields.
NextIndex ==
    \/ CallSetIndexes("t1")
    \/ \E t \in Threads :
        \/ CallCreateIndex(t)
        \/ CallEnsureIndex(t)
        \/ CallDropIndex(t)
        \/ EnsureGet(t)
        \/ DropPosition(t)
        \/ DropRemove(t)
        \/ DropMark(t)
        \/ CreateCheck(t)
        \/ CreateBackfill(t)
        \/ CreatePush(t)
        \/ Finish(t)

SpecIndex == Init /\ [][NextIndex]_vars

\* Threads that create and drop indexes side by side.
NextRace ==
    \E t \in Threads :
        \/ CallCreateIndex(t)
        \/ CallDropIndex(t)
        \/ DropPosition(t)
        \/ DropRemove(t)
        \/ DropMark(t)
        \/ CreateCheck(t)
        \/ CreateBackfill(t)
        \/ CreatePush(t)
        \/ Finish(t)

SpecRace == Init /\ [][NextRace]_vars

\* ================================================================== claims
InsertReturned == ret'.op = "insert" /\ ret'.ok

\* C1 (as claimed): every successful insert returns an id strictly greater
\* than every id an earlier insert on the collection returned, so that an id
\* freed by delete or remove is never handed out again.
C1_InsertIdsIncrease == [][InsertReturned => ret'.val > issued]_vars

\* C2 (as claimed): after purge() returns Ok the collection holds no
\* documents (find_ids(None) is empty, last_id() is 0) and every index of the
\* index list is empty.
C2_PurgeEmpties ==
    [][(ret'.op = "purge" /\ ret'.ok) =>
        /\ find_ids([db |-> primary', ixs |-> indexes'], NoFilter).ids = {}
        /\ last_id(primary') = 0
        /\ \A n \in DOMAIN indexes' : indexes'[n].entries = {}]_vars

\* C3 (as claimed): after load(docs) returns Ok the ids present in the
\* collection are exactly the Primaries carried by docs (ret.arg).
C3_LoadReplaces ==
    [][(ret'.op = "load" /\ ret'.ok) => Present(primary') = ret'.arg]_vars

\* The entries an index must hold for the documents of db: one per key it
\* extracts from each present document.
Derived(ix, db) == {e \in Keys \X Ids : e[1] \in Extract(ix, db[e[2]])}

\* C4: for every index of the list and every document of the primary map,
\* each key the index extracts from the document has its entry (key, id) in
\* the index, and a query by that key finds the document.
C4_IndexComplete ==
    \A n \in DOMAIN indexes : \A id \in Present(primary) :
        \A k \in Extract(indexes[n], primary[id]) :
            /\ <<k, id>> \in indexes[n].entries
            /\ id \in find_ids(St, [path |-> indexes[n].path, v |-> k, inv |-> FALSE]).ids

\* C4 witness: two indexes, each holding the entry of a present document
\* that a call has just written.
C4_Witness ==
    /\ Len(indexes) = 2
    /\ ret.op \in {"put", "update", "load", "insert"} /\ ret.ok
    /\ \A n \in DOMAIN indexes :
        \E id \in Present(primary) : Extract(indexes[n], primary[id]) # {}

\* C5 (as claimed): every entry (key, id) of every index of the list is
\* derived from the document stored at id: the id is present and the
\* document yields the key.
C5_NoStrayEntries ==
    \A n \in DOMAIN indexes : \A e \in indexes[n].entries :
        /\ e[2] \in Present(primary)
        /\ e[1] \in Extract(indexes[n], primary[e[2]])

IndexFailed ==
    /\ ret'.op \in {"insert", "put", "update", "remove", "delete"}
    /\ ~ret'.ok
    /\ ret'.err = "IndexError"

\* C6: when the update of an index fails during insert, put, update, remove
\* or delete, the call returns an error and the primary map and every index
\* are exactly as before the call.
C6_FailedCallChangesNothing ==
    [][IndexFailed => (primary' = primary /\ indexes' = indexes)]_vars

\* C6 witness: an update over two documents without keys failed on the one
\* Unique index: it had given the key to the first document, in the primary
\* map and in the index, before the second document clashed.
C6_Witness ==
    /\ ret.op = "update" /\ ret.err = "IndexError"
    /\ Present(primary) = Ids
    /\ \A id \in Ids : primary[id] = [a |-> 0, b |-> 0]
    /\ Len(indexes) = 1 /\ indexes[1].kind = "Unique" /\ indexes[1].entries = {}

\* C7 (as claimed): delete(id) returns true exactly when the document was
\* present; after true, has(id) is false, get(id) is None and no index holds
\* an entry for id; after false, no error and nothing changed.
C7_DeleteContract ==
    [][ret'.op = "delete" =>
        LET id == ret'.arg
        IN  /\ ret'.ok
            /\ (ret'.val = 1) <=> (Get(primary, id) # NoDoc)
            /\ ret'.val = 1 =>
                /\ Get(primary', id) = NoDoc
                /\ \A n \in DOMAIN indexes' :
                    \A e \in indexes'[n].entries : e[2] # id
            /\ ret'.val = 0 => (primary' = primary /\ indexes' = indexes)]_vars

\* C8: the physical database is deleted at most once, and only by the drop
\* of the last reference after to_delete set the marker; a drop while another
\* clone (a caller's or an iterator's) is alive, or without the marker,
\* deletes nothing; the marker, once set, stays set.
C8_DeferredDelete ==
    /\ [](dbDeleted <= 1 /\ (dbDeleted = 1 => (delete /\ Strong = 0)))
    /\ [][dbDeleted' # dbDeleted =>
            (dbDeleted' = dbDeleted + 1 /\ delete /\ Strong = 1 /\ Strong' = 0)]_vars
    /\ [][(Strong' < Strong /\ (Strong > 1 \/ ~delete)) => dbDeleted' = dbDeleted]_vars
    /\ [][delete => delete']_vars
    /\ [][(~delete /\ delete') => ret'.op = "to_delete"]_vars

\* C8 witness: to_delete was called and the last reference is gone: the
\* database has been deleted.
C8_Witness == dbDeleted = 1 /\ delete /\ Strong = 0

\* An index for a.path with the same kind and key is in the list.
SameIndex(a) ==
    LET ix == get_index(St, a.path)
    IN  ix # NoIndex /\ ix.kind = a.kind /\ ix.key = a.key

\* The list ixs holds exactly one index for a.path; it has the requested
\* kind and key and exactly the entries derived from the documents of db.
OneBackfilled(ixs, a, db) ==
    \E n \in DOMAIN ixs :
        /\ ixs[n].path = a.path /\ ixs[n].kind = a.kind /\ ixs[n].key = a.key
        /\ ixs[n].entries = Derived(ixs[n], db)
        /\ \A m \in DOMAIN ixs : ixs[m].path = a.path => m = n

\* A Unique index is requested and two documents yield the same key.
Duplicates(a, db) ==
    /\ a.kind = "Unique"
    /\ \E i, j \in Present(db) :
        /\ i # j
        /\ Extract(NewIndex(a.path, a.kind, a.key), db[i]) \cap
           Extract(NewIndex(a.path, a.kind, a.key), db[j]) # {}

\* C9 (as claimed): ensure_index returns false and changes nothing when the
\* same index exists; otherwise it returns true and the list then holds
\* exactly one index for path, as requested, backfilled from the documents.
C9_EnsureAsClaimed ==
    [][ret'.op = "ensure_index" =>
        LET a == ret'.arg
        IN  IF SameIndex(a)
            THEN ret'.ok /\ ret'.val = 0 /\ primary' = primary /\ indexes' = indexes
            ELSE ret'.ok /\ ret'.val = 1 /\ primary' = primary
                 /\ OneBackfilled(indexes', a, primary)]_vars

\* C9 (amended): as claimed, except that when a Unique index is requested
\* and two documents yield the same key the call fails, and the list then
\* holds no index for path (a differing index has been dropped).
C9_Ensure ==
    [][ret'.op = "ensure_index" =>
        LET a == ret'.arg
        IN  IF SameIndex(a)
            THEN ret'.ok /\ ret'.val = 0 /\ primary' = primary /\ indexes' = indexes
            ELSE IF Duplicates(a, primary)
            THEN ~ret'.ok /\ primary' = primary
                 /\ \A n \in DOMAIN indexes' : indexes'[n].path # a.path
            ELSE ret'.ok /\ ret'.val = 1 /\ primary' = primary
                 /\ OneBackfilled(indexes', a, primary)]_vars

\* C9 witness: ensure_index returned true where an index for the path is not
\* the last of the list any more, and the index it built holds entries.
C9_Witness ==
    /\ ret.op = "ensure_index" /\ ret.ok /\ ret.val = 1
    /\ Len(indexes) = 2
    /\ indexes[2].path = ret.arg.path
    /\ indexes[2].entries # {}

\* The new index is the last of the list, as requested, holds an entry for
\* every key of every document, and a find by key returns the documents.
Created(a) ==
    /\ Len(indexes') = Len(indexes) + 1
    /\ SubSeq(indexes', 1, Len(indexes)) = indexes
    /\ LET ix == indexes'[Len(indexes')]
       IN  /\ ix.path = a.path /\ ix.kind = a.kind /\ ix.key = a.key
           /\ \A id \in Present(primary) : \A k \in Extract(ix, primary[id]) :
                /\ <<k, id>> \in ix.entries
                /\ id \in find_ids([db |-> primary', ixs |-> indexes'],
                                   [path |-> a.path, v |-> k, inv |-> FALSE]).ids

\* C10 (as claimed): create_index returns false and changes nothing when an
\* index for path exists; otherwise it returns true and the new index is in
\* the list with an entry for every document of the collection.
C10_CreateAsClaimed ==
    [][ret'.op = "create_index" =>
        LET a == ret'.arg
        IN  IF HasIndex(St, a.path)
            THEN ret'.ok /\ ret'.val = 0 /\ primary' = primary /\ indexes' = indexes
            ELSE ret'.ok /\ ret'.val = 1 /\ primary' = primary /\ Created(a)]_vars

\* C10 (amended): as claimed, except that when a Unique index is requested
\* and two documents yield the same key the call fails and changes nothing.
C10_Create ==
    [][ret'.op = "create_index" =>
        LET a == ret'.arg
        IN  IF HasIndex(St, a.path)
            THEN ret'.ok /\ ret'.val = 0 /\ primary' = primary /\ indexes' = indexes
            ELSE IF Duplicates(a, primary)
            THEN ~ret'.ok /\ primary' = primary /\ indexes' = indexes
            ELSE ret'.ok /\ ret'.val = 1 /\ primary' = primary /\ Created(a)]_vars

\* C10 witness: create_index returned true and the index it appended holds
\* the entries of two documents that were in the collection.
C10_Witness ==
    /\ ret.op = "create_index" /\ ret.ok /\ ret.val = 1
    /\ Cardinality(indexes[Len(indexes)].entries) = 2

\* C11: after put(D) returns Ok for a document D with Primary p, get(p)
\* yields D, whether or not a document was stored at p before, and every
\* index has lost the entries of the keys that only the earlier document at
\* p yielded.
C11_PutGet ==
    [][(ret'.op = "put" /\ ret'.ok) =>
        LET D == ret'.arg
        IN  /\ get([db |-> primary', ixs |-> indexes'], D.id) = D
            /\ has([db |-> primary', ixs |-> indexes'], D.id)
            /\ Len(indexes') = Len(indexes)
            /\ \A n \in DOMAIN indexes :
                \A k \in Extract(indexes[n], Get(primary, D.id)) \ Extract(indexes[n], D.val) :
                    <<k, D.id>> \notin indexes'[n].entries]_vars

\* C11 witness: put returned Ok for a document without the indexed field,
\* stored at an id that an insert had issued, while the index on that field
\* holds the entry of the other document only.
C11_Witness ==
    /\ ret.op = "put" /\ ret.ok
    /\ ret.arg.id = 1 /\ issued = 2 /\ ret.arg.val.a = 0
    /\ get(St, 1) = ret.arg
    /\ Len(indexes) >= 1 /\ indexes[1].path = "a" /\ indexes[1].key = "Int"
    /\ indexes[1].entries = {<<1, 2>>}

Reverse(s) == [i \in 1..Len(s) |-> s[Len(s) + 1 - i]]

\* C12: for every filter (none, a selection, an inverted selection) the ids
\* of find(filter, Primary(Asc)) are strictly increasing, so none is
\* repeated; those of find(filter, Primary(Desc)) are the same ids in exactly
\* the reverse order; and the set of ids is find_ids(filter) on that state.
C12_FindOrdered ==
    [][(ret = NoCall /\ ret'.op = "find" /\ ret'.ok) =>
        LET f == ret'.arg.f
            ids == ret'.arg.ids
        IN  /\ ret'.arg.order = "Asc" =>
                    \A i, j \in DOMAIN ids : i < j => ids[i] < ids[j]
            /\ ret'.arg.order = "Desc" =>
                    \A h \in Orders(Selected(St, f)) :
                        ids = Reverse(find_primary(St, f, "Asc", h).ids)
            /\ \A h \in Orders(Selected(St, f)) :
                    ids = Reverse(find_primary(St, f, "Desc", h).ids) =>
                        ret'.arg.order = "Asc" \/ Len(ids) <= 1
            /\ ret'.val = Len(ids)
            /\ find_ids(St, f).ok
            /\ {ids[i] : i \in DOMAIN ids} = find_ids(St, f).ids]_vars

\* C12 witness: a find by key in descending order returned two documents.
C12_Witness ==
    /\ ret.op = "find" /\ ret.ok
    /\ ret.arg.order = "Desc" /\ ret.arg.f # NoFilter /\ ~ret.arg.f.inv
    /\ ret.arg.ids = <<2, 1>>

\* C16 (as claimed): when the document of the id a DocumentsIterator takes
\* next is gone, next yields the error as an item; and once the iterator has
\* yielded an error, every later next returns None.
C16_ErrorTerminates ==
    [][(ret = NoCall /\ ret'.op = "next") =>
        LET it == docIters[ret'.arg]
        IN  /\ (it.ids # << >> /\ get(St, Head(it.ids)) = None) =>
                    (~ret'.ok /\ ret'.err = "NotFound")
            /\ it.failed => (ret'.ok /\ ret'.val = 0 /\ docIters'[ret'.arg].ids = << >>)]_vars

\* Filter `not f`
Not(f) == [f EXCEPT !.inv = ~f.inv]

\* C13 (as claimed): on every reachable state and for every filter f that an
\* index serves, find_ids(Some(f)) and find_ids(Some(not f)) are disjoint
\* and their union is find_ids(None), the keys of the primary map.
C13_FilterPartition ==
    \A f \in Filters \ {NoFilter} :
        find_ids(St, f).ok =>
            /\ find_ids(St, Not(f)).ok
            /\ find_ids(St, f).ids \cap find_ids(St, Not(f)).ids = {}
            /\ find_ids(St, f).ids \cup find_ids(St, Not(f)).ids
                    = find_ids(St, NoFilter).ids

\* load(docs) on st reaches a document without a Primary: the documents
\* before it were written and indexed without error.
MeetsMissing(st, docs) ==
    \E n \in DOMAIN docs :
        /\ docs[n].id = 0
        /\ \A m \in 1..(n - 1) : docs[m].id # 0
        /\ LoadFrom(Begin(purge(st).st), SubSeq(docs, 1, n - 1), 1).ok

\* The step is the call load(docs): docs carry the Primaries of ret.arg and
\* load(docs) on the state before gives the result and the state after.
IsLoadOf(docs) ==
    /\ {docs[n].id : n \in DOMAIN docs} = ret'.arg
    /\ load(St, docs) = [ok |-> ret'.ok, err |-> ret'.err, val |-> ret'.val,
                         st |-> [db |-> primary', ixs |-> indexes']]

\* C14: put of a document without a Primary fails with MissingIdentifier and
\* changes nothing; a load that reaches a document without a Primary fails
\* with MissingIdentifier and the primary map and the indexes are as before
\* the call: none of the documents given to it has become visible.
C14_MissingIdentifier ==
    [][/\ (ret'.op = "put" /\ ret'.arg.id = 0) =>
            /\ ~ret'.ok /\ ret'.err = "MissingIdentifier"
            /\ primary' = primary /\ indexes' = indexes
       /\ (ret'.op = "load" /\ 0 \in ret'.arg) =>
            /\ ~ret'.ok
            /\ primary' = primary /\ indexes' = indexes
            /\ \/ ret'.err = "MissingIdentifier"
               \/ \A docs \in LoadInputs : ~(IsLoadOf(docs) /\ MeetsMissing(St, docs))]_vars

\* C14 witness: a load of two documents, the first for the absent id 2 and
\* the second without a Primary, failed with MissingIdentifier.
C14_Witness ==
    /\ ret.op = "load" /\ ~ret.ok /\ ret.err = "MissingIdentifier"
    /\ ret.arg = {0, 2}
    /\ Present(primary) = {1}
    /\ Len(indexes) = 1

ListedPaths(fields) == {fields[n].path : n \in DOMAIN fields}

\* The last key field of the list that names the path
LastListing(fields, path) ==
    fields[CHOOSE n \in DOMAIN fields :
                fields[n].path = path /\ \A m \in DOMAIN fields : m > n => fields[m].path # path]

\* Every index of a path that is not listed is still in the list, with the
\* same kind and key.
UnlistedKept(fields) ==
    \A n \in DOMAIN indexes :
        indexes[n].path \notin ListedPaths(fields) =>
            \E m \in DOMAIN indexes' :
                /\ indexes'[m].path = indexes[n].path
                /\ indexes'[m].kind = indexes[n].kind
                /\ indexes'[m].key = indexes[n].key

\* The first index for a.path in the list after the call has a's kind and key.
EndsWith(a) ==
    LET ix == get_index([db |-> primary', ixs |-> indexes'], a.path)
    IN  ix # NoIndex /\ ix.kind = a.kind /\ ix.key = a.key

EndsLoop(t) ==
    /\ th[t].op \in {"update", "remove"}
    /\ th[t].pc = "write"
    /\ th'[t].pc = "done"

\* C17 (as claimed): when a document whose id update or remove captured has
\* been deleted by another thread before the write phase reaches it, the
\* call returns an error and changes no document and no index; a document
\* that another thread inserted after the ids were captured is neither
\* modified nor removed by the call.
C17_SnapshotWindow ==
    [][\A t \in Threads : EndsLoop(t) =>
        /\ (\E id \in th[t].arg.found : primary[id] = NoDoc) =>
                (~th'[t].res.ok /\ primary' = primary /\ indexes' = indexes)
        /\ \A id \in (Ids \ th[t].arg.found) \cup th[t].fresh :
                primary'[id] = primary[id]]_vars

\* The thread t ends its insert with Ok in this step.
EndsInsert(t) ==
    /\ th[t].op = "insert"
    /\ th[t].pc = "write"
    /\ th'[t].pc = "done"
    /\ th'[t].res.ok

\* C18 (as claimed): an insert that returns Ok has written its document at
\* an id where no document was, and when another insert has returned Ok at
\* the same time the two ids differ and both documents are present.
C18_InsertsDistinct ==
    [][\A t \in Threads : EndsInsert(t) =>
        /\ primary[th'[t].res.val] = NoDoc
        /\ \A u \in Threads \ {t} :
            (th[u].op = "insert" /\ th[u].pc = "done" /\ th[u].res.ok) =>
                /\ th[u].res.val # th'[t].res.val
                /\ primary'[th[u].res.val] # NoDoc
                /\ primary'[th'[t].res.val] # NoDoc]_vars

\* No call is running in a thread other than t.
OthersReturned(t) == \A u \in Threads \ {t} : th[u].pc \in {"idle", "done"}

\* C19 (as claimed): once create_index has returned true and the calls of
\* the other threads (put, delete) have returned, the index of that path
\* holds an entry for every document of the primary map and no entry for an
\* absent id, also for a mutation that committed between the backfill and
\* the append to the index list.
C19_CreatedIndexExact ==
    \A t \in Threads :
        (/\ th[t].op = "create_index" /\ th[t].pc = "done"
         /\ th[t].res.ok /\ th[t].res.val = 1
         /\ OthersReturned(t)) =>
            \A n \in DOMAIN indexes :
                indexes[n].path = th[t].arg.path =>
                    indexes[n].entries = Derived(indexes[n], primary)

\* The thread u holds the write transaction and its next step takes
\* handle.indexes.read() in update_indexes.
WaitsForIndexes(u) ==
    /\ wtxn.owner = u
    /\ th[u].pc = "write"
    /\ \/ th[u].op \in {"insert", "put"}
       \/ th[u].op = "delete" /\ Get(wtxn.db, th[u].id) # NoDoc
       \/ /\ th[u].op \in {"update", "remove"}
          /\ th[u].ids # << >>
          /\ Get(wtxn.db, Head(th[u].ids)) # NoDoc

\* The thread t holds the write lock of the index list inside drop_index and
\* its next step is WriteTransaction::new.
WaitsForWriter(t) == ixlock = t /\ th[t].pc = "mark"

\* C20 (as claimed): no state is reachable in which drop_index (called
\* directly or by ensure_index) holds the index-list write lock and waits
\* for the write transaction while a mutation holds the write transaction
\* and waits for the index-list read lock: both calls always return.
C20_NoLockCycle ==
    \A t, u \in Threads : ~(t # u /\ WaitsForWriter(t) /\ WaitsForIndexes(u))

\* Whether the document stored at id matches the filter: the index of the
\* filter's field yields the compared key for it (or does not, for Not).
Matches(st, f, id) ==
    \/ f = NoFilter
    \/ (f.v \in Extract(get_index(st, f.path), Get(st.db, id))) # f.inv

Matching(st, f) == {id \in Present(st.db) : Matches(st, f, id)}

\* C21 (as claimed): update(filter, modify) with no concurrent writer returns
\* the number of documents matching the filter, leaves the set of ids of the
\* primary map unchanged, rewrites each matching document with modify applied
\* under the same Primary and leaves the others untouched, and for every
\* modified document removes the index entries of its old value and adds
\* those of its new value.
C21_UpdateFrame ==
    [][(ret = NoCall /\ ret'.op = "update" /\ ret'.ok) =>
        LET f == ret'.arg.f
            m == ret'.arg.m
            M == Matching([db |-> primary, ixs |-> indexes], f)
        IN  /\ ret'.val = Cardinality(M)
            /\ Present(primary') = Present(primary)
            /\ \A id \in Present(primary) :
                primary'[id] = IF id \in M THEN ModifyApply(m, primary[id])
                               ELSE primary[id]
            /\ Len(indexes') = Len(indexes)
            /\ \A n \in DOMAIN indexes : \A id \in M :
                LET old == Extract(indexes[n], primary[id])
                    new == Extract(indexes[n], ModifyApply(m, primary[id]))
                IN  /\ \A k \in old \ new : <<k, id>> \notin indexes'[n].entries
                    /\ \A k \in new : <<k, id>> \in indexes'[n].entries]_vars

\* C22 (as claimed): under any interleaving of create_index, ensure_index,
\* set_indexes and drop_index calls from several threads, the index list
\* holds at most one index per field path.
C22_OneIndexPerPath ==
    \A n, m \in DOMAIN indexes : indexes[n].path = indexes[m].path => n = m

\* The thread t is in drop_index(path) past indexes.remove(pos), or has
\* returned true from it; th[t].ix is the index that remove(pos) took out.
HasRemoved(t) ==
    \/ th[t].pc = "mark"
    \/ th[t].op = "drop_index" /\ th[t].pc = "done" /\ th[t].res.ok /\ th[t].res.val = 1

\* C23 (as claimed): under any interleaving of drop_index and create_index
\* calls from several threads, the index that a drop_index(path) returning
\* true removed from the list has the path of its argument, and remove(pos)
\* never indexes past the end of the list (no thread panics, the lock is
\* never poisoned).
C23_DropRemovesItsPath ==
    /\ ixlock # "poisoned"
    /\ \A t \in Threads :
        /\ th[t].pc # "panicked"
        /\ HasRemoved(t) => th[t].ix.path = th[t].arg.path

====
